---- MODULE Spec2Model ----
(***************************************************************************)
(* Model of twitter-archive-parser: the checkpointed batch runners of      *)
(* get_likes.py and get_follows.py, and the guest API of                   *)
(* twitter_guest_api/utils.py (exploratory_request, get_tweet) together    *)
(* with the video variant selection of download_videos.                    *)
(*                                                                         *)
(* Tweet and account ids are digit strings in the program; the model uses  *)
(* the numbers 1..NumIds for NumIds distinct digit strings.  Text that the *)
(* program matches with regular expressions is a sequence of one-character *)
(* strings.  Python dicts are functions; None is the value "None" in       *)
(* memory and "null" in a json file.                                       *)
(***************************************************************************)
EXTENDS Integers, Sequences, FiniteSets, TLC

\* ------------------------------------------------------------------ bounds
NumIds == 2
MaxInput == 2
MaxRuns == 2
MaxEntries == 3

Ids == 1..NumIds

\* ------------------------------------------------------------- variables
\* the batch runners
VARIABLES
    prog,          \* "get_likes" or "get_follows"
    args,          \* the command line flags of the invocation
    input,         \* ids found by LIKE_REGEX / ACCOUNT_REGEX, per input file
    file,          \* likes.json / accounts.json
    run,           \* number of the invocation
    pc,            \* position of main
    cur,           \* input file being processed
    output_dict,   \* like_dict / account_dict
    loaded,        \* content of file when this invocation loaded it
    idx,           \* position of the for loop in the ids
    cancelled,     \* main's cancelled (get_likes)
    account_ids,   \* get_accounts: ids to request
    new_accounts,  \* records the guest API collected for account_ids
    log,           \* what this invocation did, in order
    prev           \* how the previous invocation's fetch loop ended

batch_vars == <<prog, args, input, file, run, pc, cur, output_dict, loaded, idx,
                cancelled, account_ids, new_accounts, log, prev>>

\* exploratory_request
VARIABLES
    store,           \* <query_name>Request.json
    query_name,      \* arguments of the call
    req_id,          \* its tweet_id
    json_features,   \* locals of exploratory_request
    json_variables,
    status_params,
    result,
    attempt,         \* the loop variable _ of "for _ in range(RETRY_COUNT)"
    rpc,             \* position in exploratory_request
    guest_token,     \* headers['x-guest-token']: serial number of the token
    ret,             \* the value returned
    calls,           \* number of calls made
    hist             \* what the call did: requests, responses, patch, writes

req_vars == <<store, query_name, req_id, json_features, json_variables, status_params,
              result, attempt, rpc, guest_token, ret, calls, hist>>

\* get_tweet
VARIABLES
    status_resp,     \* the response get_tweet reads
    focal_id,        \* get_tweet's tweet_id
    tweet_out,       \* what get_tweet did: out, value, parsed
    tpc              \* "call" before get_tweet ran, "done" after

tweet_vars == <<status_resp, focal_id, tweet_out, tpc>>

\* download_videos
VARIABLES
    vpc,             \* position of download_videos
    tweets_left,     \* values of like_dict not yet visited
    media_left,      \* entries of the current tweet's media not yet visited
    media_entry,     \* the media entry visited last
    downloaded,      \* urls handed to download_file for that entry
    errors           \* logging.error calls for that entry

video_vars == <<vpc, tweets_left, media_left, media_entry, downloaded, errors>>

\* initialise_headers
VARIABLES
    hpc,             \* position of initialise_headers
    js_files,        \* what each script referenced by the page holds, in page order
    js_idx,          \* position of "for jsfile in js_files"
    bearer_token,    \* 0 for None, else the script that supplied the token
    query_ids,       \* query name -> the script that supplied its id
    headers,         \* the headers dict
    fetched,         \* scripts requested so far, in order
    token_requests,  \* calls of get_guest_token
    herror           \* the exception raised, "none" when none

header_vars == <<hpc, js_files, js_idx, bearer_token, query_ids, headers, fetched,
                 token_requests, herror>>

\* download_file
VARIABLES
    dpc,             \* position of download_file
    disk,            \* the file at output_path
    orig,            \* the file at output_path when download_file was called
    head_resp,       \* the response to requests.head
    get_resp         \* the response to requests.get

download_vars == <<dpc, disk, orig, head_resp, get_resp>>

\* what the actions of one part leave alone
not_batch == <<req_vars, tweet_vars, video_vars, header_vars, download_vars>>
not_req == <<batch_vars, tweet_vars, video_vars, header_vars, download_vars>>
not_tweet == <<batch_vars, req_vars, video_vars, header_vars, download_vars>>
not_video == <<batch_vars, req_vars, tweet_vars, header_vars, download_vars>>
not_header == <<batch_vars, req_vars, tweet_vars, video_vars, download_vars>>
not_download == <<batch_vars, req_vars, tweet_vars, video_vars, header_vars>>

vars == <<batch_vars, req_vars, tweet_vars, video_vars, header_vars, download_vars>>

\* ------------------------------------------------------- dict primitives
EmptyDict == [x \in {} |-> 0]

\* d[k] = v
setitem(d, k, v) == [x \in DOMAIN d \cup {k} |-> IF x = k THEN v ELSE d[x]]

\* d.update(e)
update(d, e) == [x \in DOMAIN d \cup DOMAIN e |-> IF x \in DOMAIN e THEN e[x] ELSE d[x]]

\* del d[k]
delitem(d, k) == [x \in DOMAIN d \ {k} |-> d[x]]

\* the set of elements of a sequence
Range(s) == {s[i] : i \in 1..Len(s)}

\* all sequences over S of length at most n
SeqUpTo(S, n) == UNION {[1..k -> S] : k \in 0..n}

\* ------------------------------------------------------------ json files
\* A value of a Result Map in memory is [kind, by]: kind is "record" or
\* "None"; by is the run that fetched it (0: it was in the file before the
\* first run).

\* json.dump of one value: a record becomes an object, None becomes null.
json_dump_value(v) == [kind |-> IF v.kind = "None" THEN "null" ELSE "object", by |-> v.by]

\* json.load of one value.
json_load_value(j) == [kind |-> IF j.kind = "null" THEN "None" ELSE "record", by |-> j.by]

\* json.dump(dict, output_file): the file opened with 'w' holds the dict.
json_dump(d) == [exists |-> TRUE, data |-> [k \in DOMAIN d |-> json_dump_value(d[k])]]

\* like_dict = {} ; try: json.load(file) except FileNotFoundError: pass
load_dictionary(f) ==
    IF f.exists THEN [k \in DOMAIN f.data |-> json_load_value(f.data[k])] ELSE EmptyDict

\* ------------------------------------------------------------- get_tweet
\* An entry of instructions[0]["entries"]: its entryId ("tweet-<id>" or
\* "tombstone-<id>"), the __typename of its tweet result, and whether the
\* entry has, next to the key "entryId" that get_tweet reads, a key spelled
\* "entryid".
Typenames == {"Tweet", "TweetWithVisibilityResults", "TweetUnavailable"}

Entries ==
    [prefix : {"tweet"}, id : Ids, typename : Typenames, entryid : BOOLEAN]
    \cup [prefix : {"tombstone"}, id : Ids, typename : {"TweetUnavailable"}, entryid : {FALSE}]

\* parse_tweet: the legacy record of a Tweet or of the tweet wrapped by
\* TweetWithVisibilityResults.  For any other type line 171 reads
\* tweet_entry["entryid"]: a KeyError when the entry has no such key,
\* otherwise line 172 raises the exception that names the entry and the type.
parse_tweet(tweet_entry) ==
    IF tweet_entry.typename \in {"Tweet", "TweetWithVisibilityResults"}
    THEN [out |-> "return", value |-> "record", error |-> "none"]
    ELSE IF tweet_entry.entryid
    THEN [out |-> "raise", value |-> "None", error |-> "unknown type"]
    ELSE [out |-> "raise", value |-> "None", error |-> "KeyError"]

\* The scan "for entry in entries" of get_tweet from position i on: the
\* result, and the position of the entry handed to parse_tweet (0: none).
RECURSIVE scan_entries(_, _, _)
scan_entries_continue(entries, i, tweet_id) ==
    IF i > Len(entries)
    THEN [out |-> "return", value |-> "None", error |-> "none", parsed |-> 0]
    ELSE IF entries[i].prefix = "tombstone" /\ entries[i].id = tweet_id
    THEN scan_entries(entries, i + 1, tweet_id)
    ELSE IF ~(entries[i].prefix = "tweet" /\ entries[i].id = tweet_id)
    THEN scan_entries(entries, i + 1, tweet_id)
    ELSE [out |-> parse_tweet(entries[i]).out, value |-> parse_tweet(entries[i]).value,
          error |-> parse_tweet(entries[i]).error, parsed |-> i]

scan_entries(entries, i, tweet_id) ==
    IF i > Len(entries)
    THEN [out |-> "return", value |-> "None", error |-> "none", parsed |-> 0]
    ELSE IF entries[i].prefix = "tombstone" /\ entries[i].id = tweet_id
    THEN [out |-> "return", value |-> "None", error |-> "none", parsed |-> 0]
    ELSE IF ~(entries[i].prefix = "tweet" /\ entries[i].id = tweet_id)
    THEN scan_entries(entries, i + 1, tweet_id)
    ELSE [out |-> parse_tweet(entries[i]).out, value |-> parse_tweet(entries[i]).value,
          error |-> parse_tweet(entries[i]).error, parsed |-> i]

\* The response text handed to json.loads by get_tweet: text that is not
\* json of the expected shape ("malformed": json.loads or a subscript
\* raises), an object with "errors", or a conversation with entries.
StatusJson(entrySeqs) ==
    {[shape |-> "malformed", entries |-> <<>>], [shape |-> "errors", entries |-> <<>>]}
    \cup [shape : {"conversation"}, entries : entrySeqs]

\* get_tweet after exploratory_request returned status_resp.
get_tweet(status_json, tweet_id) ==
    IF status_json.shape = "malformed"
    THEN [out |-> "raise", value |-> "None", error |-> "json", parsed |-> 0]
    ELSE IF status_json.shape = "errors"
    THEN [out |-> "return", value |-> "None", error |-> "none", parsed |-> 0]
    ELSE scan_entries(status_json.entries, 1, tweet_id)


\* =================================================== the batch runners
\* get_likes.py main / get_liked_tweets and get_follows.py main /
\* get_accounts, one invocation after another over the same archive.

LikesArgs == [skip_metadata : BOOLEAN, skip_images : BOOLEAN, skip_videos : BOOLEAN]
FollowsArgs == [following : BOOLEAN, follower : BOOLEAN]

\* Files a first invocation can find: none, or a json object written by an
\* earlier invocation.
InitialFiles(kinds) ==
    {[exists |-> FALSE, data |-> EmptyDict]}
    \cup {[exists |-> TRUE, data |-> d] :
            d \in UNION {[S -> [kind : kinds, by : {0}]] : S \in SUBSET Ids}}

Event(ev, id) == [ev |-> ev, id |-> id]

NoPrev == [ended |-> "none", id |-> 0]

BatchInit ==
    /\ prog \in {"get_likes", "get_follows"}
    /\ IF prog = "get_likes"
       THEN /\ args \in LikesArgs
            /\ input \in [{"like"} -> SeqUpTo(Ids, MaxInput)]
            /\ file \in InitialFiles({"object", "null"})
       ELSE /\ args \in FollowsArgs
            /\ input \in [{"following", "follower"} -> SeqUpTo(Ids, MaxInput)]
            /\ Len(input["following"]) + Len(input["follower"]) <= MaxInput
            /\ file \in InitialFiles({"object"})
    /\ run = 1
    /\ pc = "main"
    /\ cur = "none"
    /\ output_dict = EmptyDict
    /\ loaded = EmptyDict
    /\ idx = 1
    /\ cancelled = FALSE
    /\ account_ids = <<>>
    /\ new_accounts = EmptyDict
    /\ log = <<>>
    /\ prev = NoPrev

\* ---------------------------------------------------------- get_likes.py
\* line 57: if tweet_id in output_dict
already_processed_truthy(tweet_id, d) == tweet_id \in DOMAIN d /\ d[tweet_id].kind # "None"

already_processed(tweet_id, d) == tweet_id \in DOMAIN d

\* line 61: output_dict[tweet_id] = download.get_tweet(session, tweet_id)
store_tweet_if_found(d, tweet_id, value) ==
    IF value = "None" THEN d ELSE setitem(d, tweet_id, [kind |-> value, by |-> run])

store_tweet(d, tweet_id, value) == setitem(d, tweet_id, [kind |-> value, by |-> run])

\* Responses a tweet lookup can end with.
LikeResponses == StatusJson(SeqUpTo(Entries, 1))

\* What exploratory_request hands to get_tweet: the status code of the last
\* response and its text.  get_tweet never sees the status code.  The text
\* of a response other than 200 is an error object or no json at all.
LikeOutcomes ==
    [status_code : {200}, body : LikeResponses]
    \cup [status_code : {400}, body : {r \in LikeResponses : r.shape \in {"malformed", "errors"}}]

\* the events of one lookup of tweet_id that ended as the last element says
LookupEvents(tweet_id, status_code, ending) ==
    <<Event("query", tweet_id)>>
    \o (IF status_code = 200 THEN <<>> ELSE <<Event("failed", tweet_id)>>)
    \o <<Event(ending, tweet_id)>>

\* main, lines 120-131: load likes.json, read like.js, choose the stage.
LikesMain ==
    /\ prog = "get_likes" /\ pc = "main"
    /\ output_dict' = load_dictionary(file)
    /\ loaded' = load_dictionary(file)
    /\ cur' = "like"
    /\ pc' = IF args.skip_metadata THEN "images" ELSE "api_init"
    /\ UNCHANGED <<prog, args, input, file, run, idx, cancelled, account_ids, new_accounts, log, prev>>
    /\ UNCHANGED not_batch

\* get_liked_tweets line 54: TwitterGuestAPI(session) fetched the bootstrap
\* page and scripts and got a guest token.
LikesApiInit ==
    /\ prog = "get_likes" /\ pc = "api_init"
    /\ log' = log \o <<Event("bootstrap", 0), Event("guest_token", 0)>>
    /\ idx' = 1
    /\ pc' = "loop"
    /\ UNCHANGED <<prog, args, input, file, run, cur, output_dict, loaded, cancelled,
                   account_ids, new_accounts, prev>>
    /\ UNCHANGED not_batch

\* TwitterGuestAPI(session) raised (failed request, no bearer token, no query
\* ids, no guest token): main line 135 catches it.
LikesApiInitRaise ==
    /\ prog = "get_likes" /\ pc = "api_init"
    /\ log' = log \o <<Event("bootstrap", 0), Event("exception", 0)>>
    /\ pc' = "write"
    /\ UNCHANGED <<prog, args, input, file, run, cur, output_dict, loaded, idx, cancelled,
                   account_ids, new_accounts, prev>>
    /\ UNCHANGED not_batch

\* Ctrl-C while TwitterGuestAPI(session) runs: main line 139.
LikesApiInitInterrupt ==
    /\ prog = "get_likes" /\ pc = "api_init"
    /\ log' = log \o <<Event("bootstrap", 0), Event("interrupt", 0)>>
    /\ cancelled' = TRUE
    /\ pc' = "write"
    /\ UNCHANGED <<prog, args, input, file, run, cur, output_dict, loaded, idx,
                   account_ids, new_accounts, prev>>
    /\ UNCHANGED not_batch

\* lines 55-59: the id is in output_dict, continue.
LikesSkip ==
    /\ prog = "get_likes" /\ pc = "loop" /\ idx <= Len(input["like"])
    /\ already_processed(input["like"][idx], output_dict)
    /\ idx' = idx + 1
    /\ UNCHANGED <<prog, args, input, file, run, pc, cur, output_dict, loaded, cancelled,
                   account_ids, new_accounts, log, prev>>
    /\ UNCHANGED not_batch

\* lines 60-61: get_tweet returned a record or None.
LikesFetchReturn ==
    /\ prog = "get_likes" /\ pc = "loop" /\ idx <= Len(input["like"])
    /\ ~already_processed(input["like"][idx], output_dict)
    /\ \E resp \in LikeOutcomes :
        LET tweet_id == input["like"][idx]
            got == get_tweet(resp.body, tweet_id)
        IN /\ got.out = "return"
           /\ output_dict' = store_tweet(output_dict, tweet_id, got.value)
           /\ log' = log \o LookupEvents(tweet_id, resp.status_code, "returned")
    /\ idx' = idx + 1
    /\ UNCHANGED <<prog, args, input, file, run, pc, cur, loaded, cancelled,
                   account_ids, new_accounts, prev>>
    /\ UNCHANGED not_batch

\* lines 60-61: get_tweet raised an Exception (a failed guest token request
\* inside exploratory_request, a response json.loads cannot read, a tweet
\* result of unknown type): main line 135.
LikesFetchRaise ==
    /\ prog = "get_likes" /\ pc = "loop" /\ idx <= Len(input["like"])
    /\ ~already_processed(input["like"][idx], output_dict)
    /\ \E resp \in LikeOutcomes :
        /\ get_tweet(resp.body, input["like"][idx]).out = "raise"
        /\ log' = log \o LookupEvents(input["like"][idx], resp.status_code, "exception")
    /\ pc' = "write"
    /\ UNCHANGED <<prog, args, input, file, run, cur, output_dict, loaded, idx, cancelled,
                   account_ids, new_accounts, prev>>
    /\ UNCHANGED not_batch

\* Ctrl-C while get_tweet waits for the network, were KeyboardInterrupt not
\* caught by main: the process ends without writing likes.json.
LikesFetchInterrupt_uncaught ==
    /\ prog = "get_likes" /\ pc = "loop" /\ idx <= Len(input["like"])
    /\ ~already_processed(input["like"][idx], output_dict)
    /\ log' = log \o <<Event("query", input["like"][idx]), Event("interrupt", input["like"][idx])>>
    /\ cancelled' = TRUE
    /\ pc' = "done"
    /\ UNCHANGED <<prog, args, input, file, run, cur, output_dict, loaded, idx,
                   account_ids, new_accounts, prev>>
    /\ UNCHANGED not_batch

\* Ctrl-C while get_tweet waits for the network: main line 139.
LikesFetchInterrupt ==
    /\ prog = "get_likes" /\ pc = "loop" /\ idx <= Len(input["like"])
    /\ ~already_processed(input["like"][idx], output_dict)
    /\ log' = log \o <<Event("query", input["like"][idx]), Event("interrupt", input["like"][idx])>>
    /\ cancelled' = TRUE
    /\ pc' = "write"
    /\ UNCHANGED <<prog, args, input, file, run, cur, output_dict, loaded, idx,
                   account_ids, new_accounts, prev>>
    /\ UNCHANGED not_batch

\* The for loop of get_liked_tweets is exhausted; get_liked_tweets returns.
LikesLoopEnd ==
    /\ prog = "get_likes" /\ pc = "loop" /\ idx > Len(input["like"])
    /\ log' = Append(log, Event("complete", 0))
    /\ pc' = "write"
    /\ UNCHANGED <<prog, args, input, file, run, cur, output_dict, loaded, idx, cancelled,
                   account_ids, new_accounts, prev>>
    /\ UNCHANGED not_batch

\* main lines 147-148: if cancelled: return
after_write_no_return(c) == "images"

after_write(c) == IF c THEN "done" ELSE "images"

\* main lines 143-148: write likes.json; return if cancelled.
LikesWrite ==
    /\ prog = "get_likes" /\ pc = "write"
    /\ file' = json_dump(output_dict)
    /\ log' = Append(log, Event("write", 0))
    /\ pc' = after_write(cancelled)
    /\ UNCHANGED <<prog, args, input, run, cur, output_dict, loaded, idx, cancelled,
                   account_ids, new_accounts, prev>>
    /\ UNCHANGED not_batch

\* main lines 150-151: download_images unless skipped.
LikesImages ==
    /\ prog = "get_likes" /\ pc = "images"
    /\ log' = IF args.skip_images THEN log ELSE Append(log, Event("images", 0))
    /\ pc' = "videos"
    /\ UNCHANGED <<prog, args, input, file, run, cur, output_dict, loaded, idx, cancelled,
                   account_ids, new_accounts, prev>>
    /\ UNCHANGED not_batch

\* main lines 153-154: download_videos unless skipped.
LikesVideos ==
    /\ prog = "get_likes" /\ pc = "videos"
    /\ log' = IF args.skip_videos THEN log ELSE Append(log, Event("videos", 0))
    /\ pc' = "done"
    /\ UNCHANGED <<prog, args, input, file, run, cur, output_dict, loaded, idx, cancelled,
                   account_ids, new_accounts, prev>>
    /\ UNCHANGED not_batch


\* -------------------------------------------------------- get_follows.py
\* get_accounts lines 21-27: the ids of the file that are not in output_dict.
collect_account_ids(contents, d) == SelectSeq(contents, LAMBDA a : a \notin DOMAIN d)

\* get_accounts line 29: output_dict.update(new_accounts)
merge_accounts(d, new) == update(d, new)

\* main lines 41-53: no mode given: log an error and return; otherwise load
\* accounts.json.
FollowsMain ==
    /\ prog = "get_follows" /\ pc = "main"
    /\ IF ~args.following /\ ~args.follower
       THEN /\ pc' = "done"
            /\ UNCHANGED <<output_dict, loaded>>
       ELSE /\ output_dict' = load_dictionary(file)
            /\ loaded' = load_dictionary(file)
            /\ pc' = "following"
    /\ UNCHANGED <<prog, args, input, file, run, cur, idx, cancelled, account_ids,
                   new_accounts, log, prev>>
    /\ UNCHANGED not_batch

\* main lines 56-61: call get_accounts for following.js, then for
\* follower.js, each only when its flag is given.  get_accounts reads the
\* file (lines 17-18).
FollowsNextFile ==
    /\ prog = "get_follows" /\ pc \in {"following", "follower"}
    /\ IF args[pc]
       THEN /\ cur' = pc
            /\ pc' = "api_init"
            /\ log' = Append(log, Event(pc, 0))
       ELSE /\ pc' = IF pc = "following" THEN "follower" ELSE "write"
            /\ UNCHANGED <<cur, log>>
    /\ UNCHANGED <<prog, args, input, file, run, output_dict, loaded, idx, cancelled,
                   account_ids, new_accounts, prev>>
    /\ UNCHANGED not_batch

\* get_accounts lines 20-27: TwitterGuestAPI(session) succeeded; collect the
\* ids to request.
FollowsApiInit ==
    /\ prog = "get_follows" /\ pc = "api_init"
    /\ log' = log \o <<Event("bootstrap", 0), Event("guest_token", 0)>>
    /\ account_ids' = collect_account_ids(input[cur], output_dict)
    /\ new_accounts' = EmptyDict
    /\ idx' = 1
    /\ pc' = "api_get_accounts"
    /\ UNCHANGED <<prog, args, input, file, run, cur, output_dict, loaded, cancelled, prev>>
    /\ UNCHANGED not_batch

\* TwitterGuestAPI(session) raised: main line 62.
FollowsApiInitRaise ==
    /\ prog = "get_follows" /\ pc = "api_init"
    /\ log' = log \o <<Event("bootstrap", 0), Event("exception", 0)>>
    /\ pc' = "write"
    /\ UNCHANGED <<prog, args, input, file, run, cur, output_dict, loaded, idx, cancelled,
                   account_ids, new_accounts, prev>>
    /\ UNCHANGED not_batch

\* Ctrl-C while TwitterGuestAPI(session) runs: main line 66.
FollowsApiInitInterrupt ==
    /\ prog = "get_follows" /\ pc = "api_init"
    /\ log' = log \o <<Event("bootstrap", 0), Event("interrupt", 0)>>
    /\ pc' = "write"
    /\ UNCHANGED <<prog, args, input, file, run, cur, output_dict, loaded, idx, cancelled,
                   account_ids, new_accounts, prev>>
    /\ UNCHANGED not_batch

\* api.get_accounts (line 28) obtained the record of the next requested id.
ApiGetAccountsFetch ==
    /\ prog = "get_follows" /\ pc = "api_get_accounts" /\ idx <= Len(account_ids)
    /\ new_accounts' = setitem(new_accounts, account_ids[idx], [kind |-> "record", by |-> run])
    /\ log' = log \o <<Event("query", account_ids[idx]), Event("returned", account_ids[idx])>>
    /\ idx' = idx + 1
    /\ UNCHANGED <<prog, args, input, file, run, pc, cur, output_dict, loaded, cancelled,
                   account_ids, prev>>
    /\ UNCHANGED not_batch

\* api.get_accounts raised an Exception at the next requested id: main line 62.
ApiGetAccountsRaise ==
    /\ prog = "get_follows" /\ pc = "api_get_accounts" /\ idx <= Len(account_ids)
    /\ log' = log \o <<Event("query", account_ids[idx]), Event("exception", account_ids[idx])>>
    /\ pc' = "write"
    /\ UNCHANGED <<prog, args, input, file, run, cur, output_dict, loaded, idx, cancelled,
                   account_ids, new_accounts, prev>>
    /\ UNCHANGED not_batch

\* Ctrl-C while api.get_accounts waits for the network: main line 66.
ApiGetAccountsInterrupt ==
    /\ prog = "get_follows" /\ pc = "api_get_accounts" /\ idx <= Len(account_ids)
    /\ log' = log \o <<Event("query", account_ids[idx]), Event("interrupt", account_ids[idx])>>
    /\ pc' = "write"
    /\ UNCHANGED <<prog, args, input, file, run, cur, output_dict, loaded, idx, cancelled,
                   account_ids, new_accounts, prev>>
    /\ UNCHANGED not_batch

\* api.get_accounts returned new_accounts; get_accounts line 29 merges them
\* and returns to main.
ApiGetAccountsReturn ==
    /\ prog = "get_follows" /\ pc = "api_get_accounts" /\ idx > Len(account_ids)
    /\ output_dict' = merge_accounts(output_dict, new_accounts)
    /\ pc' = IF cur = "following" THEN "follower" ELSE "write"
    /\ UNCHANGED <<prog, args, input, file, run, cur, loaded, idx, cancelled,
                   account_ids, new_accounts, log, prev>>
    /\ UNCHANGED not_batch

\* main lines 69-71: write accounts.json.
FollowsWrite ==
    /\ prog = "get_follows" /\ pc = "write"
    /\ file' = json_dump(output_dict)
    /\ log' = Append(log, Event("write", 0))
    /\ pc' = "done"
    /\ UNCHANGED <<prog, args, input, run, cur, output_dict, loaded, idx, cancelled,
                   account_ids, new_accounts, prev>>
    /\ UNCHANGED not_batch

\* ------------------------------------------------------------- re-runs
EndEvents(l) == SelectSeq(l, LAMBDA e : e.ev \in {"complete", "exception", "interrupt"})

\* The program is started again with the same command line on the same
\* archive: a new process, with the files the previous one left.
Rerun ==
    /\ pc = "done" /\ run < MaxRuns
    /\ run' = run + 1
    /\ prev' = IF EndEvents(log) = <<>> THEN NoPrev
               ELSE [ended |-> EndEvents(log)[1].ev, id |-> EndEvents(log)[1].id]
    /\ pc' = "main"
    /\ cur' = "none"
    /\ output_dict' = EmptyDict
    /\ loaded' = EmptyDict
    /\ idx' = 1
    /\ cancelled' = FALSE
    /\ account_ids' = <<>>
    /\ new_accounts' = EmptyDict
    /\ log' = <<>>
    /\ UNCHANGED <<prog, args, input, file>>
    /\ UNCHANGED not_batch

BatchNext ==
    \/ LikesMain \/ LikesApiInit \/ LikesApiInitRaise \/ LikesApiInitInterrupt
    \/ LikesSkip \/ LikesFetchReturn \/ LikesFetchRaise \/ LikesFetchInterrupt
    \/ LikesLoopEnd \/ LikesWrite \/ LikesImages \/ LikesVideos
    \/ FollowsMain \/ FollowsNextFile \/ FollowsApiInit \/ FollowsApiInitRaise
    \/ FollowsApiInitInterrupt \/ ApiGetAccountsFetch \/ ApiGetAccountsRaise
    \/ ApiGetAccountsInterrupt \/ ApiGetAccountsReturn \/ FollowsWrite
    \/ Rerun



\* ------------------------------------------------ claims on the batch runners
EventsOf(l, kinds) == SelectSeq(l, LAMBDA e : e.ev \in kinds)

HasEvent(l, ev) == \E i \in 1..Len(l) : l[i].ev = ev

\* ids for which a lookup was issued in this invocation, in order
QueriedIds(l) == [i \in 1..Len(EventsOf(l, {"query"})) |-> EventsOf(l, {"query"})[i].id]

\* ids whose lookup returned in this invocation
ReturnedIds(l) == {e.id : e \in Range(EventsOf(l, {"returned"}))}

NetworkEvents(l) == EventsOf(l, {"bootstrap", "guest_token", "query"})

\* every entry loaded at startup is in the file, unchanged
LoadedKept == \A k \in DOMAIN loaded :
    k \in DOMAIN file.data /\ file.data[k] = json_dump_value(loaded[k])

\* C1: get_likes, every fetch returned normally: a tweet fetch was issued for
\* exactly the input ids absent from the loaded map, each once; the loaded
\* entries are not overwritten; the written keys are the loaded keys and the
\* input ids.
C1_FetchesExactlyMissing ==
    (prog = "get_likes" /\ HasEvent(log, "complete") /\ HasEvent(log, "write")) =>
        /\ Cardinality(Range(QueriedIds(log))) = Len(QueriedIds(log))
        /\ Range(QueriedIds(log)) = Range(input["like"]) \ DOMAIN loaded
        /\ LoadedKept
        /\ file.exists
        /\ DOMAIN file.data = DOMAIN loaded \cup Range(input["like"])

\* an id that occurs twice in like.js was fetched once while another id was
\* already in likes.json
C1_Witness ==
    /\ prog = "get_likes" /\ pc = "done" /\ HasEvent(log, "complete")
    /\ \E i, j \in 1..Len(input["like"]) :
          i # j /\ input["like"][i] = input["like"][j] /\ input["like"][i] \notin DOMAIN loaded
    /\ Len(QueriedIds(log)) = 1
    /\ DOMAIN loaded # {}

\* C2 as stated: the second run over a map completed by the first run makes
\* no network call of any kind.
C2_NoNetworkCallInSecondRun ==
    (prog = "get_likes" /\ run > 1 /\ prev.ended = "complete") => NetworkEvents(log) = <<>>

\* C2 amended: the second run over a map completed by the first run issues
\* no tweet query and writes the map back unchanged; the only network calls
\* are those of TwitterGuestAPI's constructor.
C2_NoQueryInSecondRun ==
    (prog = "get_likes" /\ run > 1 /\ prev.ended = "complete") =>
        /\ ~HasEvent(log, "query")
        /\ HasEvent(log, "write") => (LoadedKept /\ DOMAIN file.data = DOMAIN loaded)

C2_Witness ==
    /\ prog = "get_likes" /\ run > 1 /\ prev.ended = "complete" /\ pc = "done"
    /\ input["like"] # <<>>
    /\ HasEvent(log, "complete")
    /\ HasEvent(log, "guest_token")

C4_CompletedAccountsPersisted ==
    (prog = "get_follows" /\ pc = "done" /\ HasEvent(log, "write")) =>
        ReturnedIds(log) \subseteq DOMAIN file.data

\* ids whose lookup ended with a response other than 200 in this invocation
FailedIds(l) == {e.id : e \in Range(EventsOf(l, {"failed"}))}

\* C11: get_likes: an id whose query ended with a response other than 200
\* has no entry in the written likes.json, and its lookup did not stop the
\* batch.
C11_FailedIdLeftUnset ==
    (prog = "get_likes" /\ pc = "done" /\ HasEvent(log, "write")) =>
        \A id \in FailedIds(log) :
            /\ id \notin DOMAIN file.data
            /\ \A i \in 1..Len(log) : ~(log[i].ev = "exception" /\ log[i].id = id)

\* C5: after a KeyboardInterrupt during the metadata fetch nothing happens
\* but one write of the map accumulated so far: no further fetch, no image or
\* video stage, no follower.js after an interrupt during following.js.
FirstInterrupt(l) == CHOOSE i \in 1..Len(l) : l[i].ev = "interrupt"

C5_InterruptThenOneWrite ==
    HasEvent(log, "interrupt") =>
        /\ pc \in {"write", "done"}
        /\ SubSeq(log, FirstInterrupt(log) + 1, Len(log)) =
              (IF pc = "done" THEN <<Event("write", 0)>> ELSE <<>>)
        /\ pc = "done" => (file = json_dump(output_dict) /\ Len(EventsOf(log, {"write"})) = 1)
        /\ (prog = "get_follows" /\ cur = "following") => ~HasEvent(log, "follower")

\* get_follows --following --follower was interrupted in following.js with
\* ids waiting in follower.js
C5_Witness ==
    /\ prog = "get_follows" /\ pc = "done"
    /\ args.following /\ args.follower
    /\ HasEvent(log, "interrupt")
    /\ cur = "following"
    /\ input["follower"] # <<>>
    /\ HasEvent(log, "query")


\* ================================================= exploratory_request
RETRY_COUNT == 10

MaxCalls == 2
MaxText == 4

\* Characters of a response text next to the missing-feature message: two
\* characters of names, the comma, the space, and the quote (a character
\* outside [a-zA-Z_0-9, ]).
NameChars == {"a", "b"}
ListChars == NameChars \cup {",", " "}
Chars == ListChars \cup {"'"}

\* A json value of the request details: False/True, or the id string.
False == [kind |-> "bool", val |-> 0]
True == [kind |-> "bool", val |-> 1]
\* str(tweet_id)
str(tweet_id) == [kind |-> "str", val |-> tweet_id]

\* The query names and their id variables (get_tweet, get_account).
id_name_of == [TweetDetail |-> "focalTweetId", UserByRestId |-> "userId"]
QueryNames == DOMAIN id_name_of

\* A response body: the names X of its matches of "Query violation:
\* Variable 'X'" in order, the text that follows the first "The following
\* features cannot be null: " (empty when the message is absent), and
\* whether the body is sent in several lines.
Body(names, text, n) == [vars |-> names, feat |-> text, lines |-> n]

Bodies ==
    { Body(<<>>, <<>>, 2),                                 \* data, or an error without a message
      Body(<<"withVoice">>, <<>>, 1),
      Body(<<"withVoice", "focalTweetId">>, <<>>, 1),
      Body(<<>>, <<"a", ",", " ", "b", "'">>, 1),
      Body(<<>>, <<"a", ",", "b", "'">>, 1) }
Statuses == {200, 429, 400}
Responses == [status_code : Statuses, body : Bodies]

\* "".join([line.decode("utf-8") for line in response.iter_lines()])
join_lines(body) == [body EXCEPT !.lines = 1]

\* MISSING_VARIABLE_PATTERN.findall(result)
missing_variables_of(text) == text.vars

\* ([a-zA-Z_0-9, ]+): the longest run of list characters at the start of text
RECURSIVE feature_group(_)
feature_group(text) ==
    IF text = <<>> \/ Head(text) \notin ListChars THEN <<>>
    ELSE <<Head(text)>> \o feature_group(Tail(text))

\* str.split(", ")
RECURSIVE split_comma_space(_, _)
split_comma_space(text, piece) ==
    IF text = <<>> THEN <<piece>>
    ELSE IF Len(text) >= 2 /\ text[1] = "," /\ text[2] = " "
    THEN <<piece>> \o split_comma_space(Tail(Tail(text)), <<>>)
    ELSE split_comma_space(Tail(text), Append(piece, Head(text)))

\* lines 94-97: MISSING_FEATURE_PATTERN.findall(result), then the first
\* match split at ", "
missing_features_of(text) ==
    IF feature_group(text.feat) = <<>> THEN <<>>
    ELSE split_comma_space(feature_group(text.feat), <<>>)

\* lines 100-101: for variable in missing_variables: json_variables[variable] = False
RECURSIVE add_all(_, _)
add_all(d, names) ==
    IF names = <<>> THEN d ELSE add_all(setitem(d, Head(names), False), Tail(names))

add_first(d, names) ==
    IF names = <<>> THEN d ELSE setitem(d, Head(names), False)

add_variables(d, names) == add_all(d, names)

\* lines 103-104: for feature in missing_features: json_features[feature] = False
add_features(d, names) == add_all(d, names)

\* make_params: the query string built from the name and the two encoded
\* dicts (the encoding is one-to-one on the dicts).
make_params(name, variables, features) ==
    [query |-> name, variables |-> variables, features |-> features]


NoBody == [vars |-> <<>>, feat |-> <<>>, lines |-> 1]

NoParams == make_params("TweetDetail", EmptyDict, EmptyDict)

NoHist ==
    [gets |-> 0, posts |-> 0, writes |-> 0,
     resps |-> 0,                    \* responses to GETs received
     first_url |-> NoParams,         \* url of the first GET
     statuses |-> <<>>,              \* status codes received before the retry loop
     last_body |-> NoBody,           \* body of the last response received
     last_status |-> 0,              \* its status code (0: no response yet)
     patched |-> FALSE]              \* the last step was a schema-retry step that patched

\* Request details a <query_name>Request.json can hold.
StoredDetails ==
    { [features |-> EmptyDict, variables |-> ("with_rux_injections" :> False)],
      [features |-> (<<"b">> :> True), variables |-> ("withVoice" :> True)] }

ReqIdle ==
    /\ store = [features |-> EmptyDict, variables |-> EmptyDict]
    /\ query_name = "TweetDetail"
    /\ req_id = 1
    /\ json_features = EmptyDict
    /\ json_variables = EmptyDict
    /\ status_params = NoParams
    /\ result = NoBody
    /\ attempt = 0
    /\ rpc = "idle"
    /\ guest_token = 1
    /\ ret = NoBody
    /\ calls = 0
    /\ hist = NoHist

ReqInit ==
    /\ store \in StoredDetails
    /\ query_name \in QueryNames
    /\ req_id = 1
    /\ json_features = EmptyDict
    /\ json_variables = EmptyDict
    /\ status_params = NoParams
    /\ result = NoBody
    /\ attempt = 0
    /\ rpc = "idle"
    /\ guest_token = 1
    /\ ret = NoBody
    /\ calls = 0
    /\ hist = NoHist

\* read_request_details: json.load of the file of query_name
read_request_details(st) == st

\* lines 68-76: read the request details, set the id variable, build the
\* query string and send the first GET.
ReqCall ==
    /\ rpc \in {"idle", "returned", "raised"} /\ calls < MaxCalls
    /\ \E id \in Ids :
        /\ req_id' = id
        /\ json_features' = read_request_details(store).features
        /\ json_variables' = setitem(read_request_details(store).variables,
                                     id_name_of[query_name], str(id))
        /\ status_params' = make_params(query_name, json_variables', json_features')
        /\ hist' = [NoHist EXCEPT !.gets = 1, !.first_url = status_params']
    /\ calls' = calls + 1
    /\ attempt' = 0
    /\ result' = NoBody
    /\ ret' = NoBody
    /\ rpc' = "sent"
    /\ UNCHANGED <<store, query_name, guest_token>>
    /\ UNCHANGED not_req

\* lines 77-86: the first response: return on 200, request a new guest
\* token on 429, otherwise go on to the retry loop.
ReqFirstResponse ==
    /\ rpc = "sent"
    /\ \E response \in Responses :
        /\ result' = join_lines(response.body)
        /\ hist' = [hist EXCEPT !.statuses = <<response.status_code>>,
                                !.last_body = response.body,
                                !.last_status = response.status_code,
                                !.resps = @ + 1,
                                !.posts = IF response.status_code = 429 THEN @ + 1 ELSE @]
        /\ rpc' = CASE response.status_code = 200 -> "returned"
                    [] response.status_code = 429 -> "token"
                    [] OTHER -> "examine"
        /\ ret' = IF response.status_code = 200 THEN result' ELSE ret
    /\ UNCHANGED <<store, query_name, req_id, json_features, json_variables, status_params,
                   attempt, guest_token, calls>>
    /\ UNCHANGED not_req

\* get_guest_token lines 31-36 succeeded; line 87 repeats the GET.
ReqTokenOk ==
    /\ rpc = "token"
    /\ guest_token' = guest_token + 1
    /\ hist' = [hist EXCEPT !.gets = @ + 1]
    /\ rpc' = "resent"
    /\ UNCHANGED <<store, query_name, req_id, json_features, json_variables, status_params,
                   result, attempt, ret, calls>>
    /\ UNCHANGED not_req

\* get_guest_token raised (status other than 200, or an empty token): the
\* exception leaves exploratory_request.
ReqTokenFail ==
    /\ rpc = "token"
    /\ rpc' = "raised"
    /\ UNCHANGED <<store, query_name, req_id, json_features, json_variables, status_params,
                   result, attempt, guest_token, ret, calls, hist>>
    /\ UNCHANGED not_req

\* lines 88-89: result is read again only from a 200 response
reread_result_never(response, old) == old

reread_result(response, old) ==
    IF response.status_code = 200 THEN join_lines(response.body) ELSE old

\* lines 87-90: the response to the repeated GET: on 200 read it and return
\* it; otherwise go on to the retry loop with result as it was.
ReqSecondResponse ==
    /\ rpc = "resent"
    /\ \E response \in Responses :
        /\ result' = reread_result(response, result)
        /\ hist' = [hist EXCEPT !.statuses = Append(@, response.status_code),
                                !.last_body = response.body,
                                !.resps = @ + 1,
                                !.last_status = response.status_code]
        /\ rpc' = IF response.status_code = 200 THEN "returned" ELSE "examine"
        /\ ret' = IF response.status_code = 200 THEN result' ELSE ret
    /\ UNCHANGED <<store, query_name, req_id, json_features, json_variables, status_params,
                   attempt, guest_token, calls>>
    /\ UNCHANGED not_req

\* line 92: for _ in range(RETRY_COUNT): there is a pass numbered n
in_range_one_more(n) == n < RETRY_COUNT + 1

in_range(n) == n < RETRY_COUNT

\* lines 92-108 and 120: one pass of the retry loop up to its GET.  With
\* nothing missing the remaining passes change nothing and line 120 returns.
ReqExamine ==
    /\ rpc = "examine"
    /\ LET missing_variables == missing_variables_of(result)
           missing_features == missing_features_of(result)
       IN IF in_range(attempt) /\ (missing_variables # <<>> \/ missing_features # <<>>)
          THEN /\ json_variables' = add_variables(json_variables, missing_variables)
               /\ json_features' = add_features(json_features, missing_features)
               /\ status_params' = make_params(query_name, json_variables', json_features')
               /\ hist' = [hist EXCEPT !.gets = @ + 1,
                                       !.patched = TRUE]
               /\ rpc' = "retry_sent"
               /\ UNCHANGED ret
          ELSE /\ ret' = result
               /\ rpc' = "returned"
               /\ hist' = [hist EXCEPT !.patched = FALSE]
               /\ UNCHANGED <<json_variables, json_features, status_params>>
    /\ UNCHANGED <<store, query_name, req_id, result, attempt, guest_token, calls>>
    /\ UNCHANGED not_req

\* write_request_details: the file of query_name holds the two dicts
write_request_details(features, variables) ==
    [features |-> features, variables |-> variables]

\* line 112: if response.status_code == 200
retry_succeeded_always(response) == TRUE

retry_succeeded(response) == response.status_code = 200

\* line 113: del json_variables[id_name]
persisted_variables_with_id(variables, id_name) == variables

persisted_variables(variables, id_name) == delitem(variables, id_name)

\* lines 109-118: the response to a retry: on 200 drop the id variable,
\* write the request details and leave the loop; otherwise next pass.
ReqRetryResponse ==
    /\ rpc = "retry_sent"
    /\ \E response \in Responses :
        /\ result' = join_lines(response.body)
        /\ IF retry_succeeded(response)
           THEN /\ json_variables' = persisted_variables(json_variables, id_name_of[query_name])
                /\ store' = write_request_details(json_features, json_variables')
                /\ ret' = result'
                /\ rpc' = "returned"
                /\ UNCHANGED attempt
           ELSE /\ attempt' = attempt + 1
                /\ rpc' = "examine"
                /\ UNCHANGED <<json_variables, store, ret>>
        /\ hist' = [hist EXCEPT !.last_body = response.body,
                                !.last_status = response.status_code,
                                !.resps = @ + 1,
                                !.patched = FALSE,
                                !.writes = IF retry_succeeded(response) THEN @ + 1 ELSE @]
    /\ UNCHANGED <<query_name, req_id, json_features, status_params, guest_token, calls>>
    /\ UNCHANGED not_req

ReqNext ==
    \/ ReqCall \/ ReqFirstResponse \/ ReqTokenOk \/ ReqTokenFail
    \/ ReqSecondResponse \/ ReqExamine \/ ReqRetryResponse


\* The retry loop entered with a response text whose missing-feature message
\* is followed by any text of at most MaxText characters.
FeatureInit ==
    /\ store \in StoredDetails
    /\ query_name \in QueryNames
    /\ req_id \in Ids
    /\ json_features = read_request_details(store).features
    /\ json_variables = setitem(read_request_details(store).variables,
                                id_name_of[query_name], str(req_id))
    /\ status_params = make_params(query_name, json_variables, json_features)
    /\ \E text \in SeqUpTo(Chars, MaxText) :
        /\ result = Body(<<>>, text, 1)
        /\ hist = [NoHist EXCEPT !.gets = 1, !.first_url = status_params,
                                 !.statuses = <<400>>, !.last_body = Body(<<>>, text, 1),
                                 !.last_status = 400, !.resps = 1]
    /\ attempt = 0
    /\ rpc = "examine"
    /\ guest_token = 1
    /\ ret = NoBody
    /\ calls = 1

FeatureNext == ReqExamine

\* ------------------------------------------- claims on exploratory_request
\* C6: first GET 429, repeated GET 200: the call returns the text of the 200
\* response, read as a first 200 response is read; it made one guest token
\* request and two GETs with the same url.
C6_RateLimitedThenOk ==
    /\ (rpc = "returned" /\ hist.statuses = <<429, 200>>) =>
        /\ ret = join_lines(hist.last_body)
        /\ hist.posts = 1
        /\ hist.gets = 2
        /\ status_params = hist.first_url
    /\ (rpc = "returned" /\ hist.statuses = <<200>>) =>
        /\ ret = join_lines(hist.last_body)
        /\ hist.posts = 0
        /\ hist.gets = 1

C6_Witness ==
    /\ rpc = "returned" /\ hist.statuses = <<429, 200>>
    /\ guest_token = 2
    /\ hist.last_body.lines = 2
    /\ ret.lines = 1

\* C7: a schema-retry step whose text names missing variables sets every
\* named variable to false and sends the next GET with a query string that
\* holds them, every variable and feature that was there before, and the
\* values of the variables that were not named.
C7_MissingVariablesAdded ==
    [][(rpc = "examine" /\ attempt < RETRY_COUNT /\ missing_variables_of(result) # <<>>) =>
        /\ rpc' = "retry_sent"
        /\ hist'.gets = hist.gets + 1
        /\ \A X \in Range(missing_variables_of(result)) :
              X \in DOMAIN status_params'.variables /\ status_params'.variables[X] = False
        /\ DOMAIN json_variables \subseteq DOMAIN status_params'.variables
        /\ \A k \in DOMAIN json_variables \ Range(missing_variables_of(result)) :
              status_params'.variables[k] = json_variables[k]
        /\ DOMAIN json_features \subseteq DOMAIN status_params'.features
        /\ status_params'.query = query_name
      ]_vars

\* two variables were named at once and the GET is in flight
C7_Witness ==
    /\ rpc = "retry_sent" /\ hist.patched
    /\ Len(missing_variables_of(result)) = 2
    /\ \A X \in Range(missing_variables_of(result)) : status_params.variables[X] = False
    /\ "with_rux_injections" \in DOMAIN status_params.variables

\* C12: a call of exploratory_request makes at most 12 GETs (one, one after
\* the token refresh, RETRY_COUNT in the retry loop) and at most one guest
\* token request; a GET is sent only when every earlier GET was answered,
\* and the token request only after the first response; a call that was
\* started ends: it returns or raises.
C12_BoundedAndTerminates ==
    /\ [](hist.gets <= RETRY_COUNT + 2 /\ hist.posts <= 1)
    /\ [](hist.statuses # <<>> /\ hist.statuses[1] # 429 => hist.gets <= RETRY_COUNT + 1)
    /\ [](hist.gets - hist.resps = IF rpc \in {"sent", "resent", "retry_sent"} THEN 1 ELSE 0)
    /\ [](hist.posts = 1 => hist.resps >= 1)
    /\ (rpc = "sent") ~> (rpc \in {"returned", "raised"})

\* a call ended at the retry ceiling after 12 GETs and one token request
C12_Witness ==
    /\ rpc = "returned" /\ hist.gets = RETRY_COUNT + 2 /\ hist.posts = 1
    /\ attempt = RETRY_COUNT
    /\ hist.last_status # 200

\* C13: when the response to a schema-retry GET is 200, the request details
\* of the query are written once, with the features of that request and its
\* variables without the id variable; no GET follows and the call returns
\* the text of that response.
C13_RetrySuccessPersists ==
    [][(rpc = "retry_sent" /\ hist'.last_status = 200) =>
        /\ hist.writes = 0 /\ hist'.writes = 1
        /\ store' = [features |-> status_params.features,
                     variables |-> delitem(status_params.variables, id_name_of[query_name])]
        /\ id_name_of[query_name] \notin DOMAIN store'.variables
        /\ hist'.gets = hist.gets
        /\ rpc' = "returned"
        /\ ret' = join_lines(hist'.last_body)
      ]_vars

\* the second retry of a call succeeded: the stored variables hold the added
\* name and not the id
C13_Witness ==
    /\ rpc = "returned" /\ hist.writes = 1 /\ attempt = 1
    /\ hist.last_status = 200 /\ hist.last_body.lines = 2
    /\ "withVoice" \in DOMAIN store.variables
    /\ "with_rux_injections" \in DOMAIN store.variables
    /\ id_name_of[query_name] \notin DOMAIN store.variables

\* C14: the request details file changes only in the step that receives 200
\* for a schema-retry GET; every call starts from the file: its features,
\* and its variables with the id variable set.
C14_StoreChangedOnlyByRetrySuccess ==
    [][ /\ (store' # store) => (rpc = "retry_sent" /\ hist'.last_status = 200)
        /\ (rpc # "sent" /\ rpc' = "sent") =>
              /\ json_features' = store.features
              /\ json_variables' = setitem(store.variables, id_name_of[query_name], str(req_id'))
      ]_vars

\* a call ended at the retry ceiling after a token refresh: it added a
\* variable in memory that the file does not hold, and another call can follow
C14_Witness ==
    /\ calls = 1 /\ rpc = "returned"
    /\ hist.writes = 0 /\ attempt = RETRY_COUNT /\ hist.posts = 1
    /\ store \in StoredDetails
    /\ "withVoice" \in DOMAIN json_variables
    /\ "withVoice" \notin DOMAIN store.variables

\* C15: when the call returns after a step that found neither pattern, it
\* returns the text of the last response received.
C15_ExhaustedReturnsLastBody ==
    (rpc = "returned" /\ hist.last_status # 200
        /\ missing_variables_of(result) = <<>> /\ missing_features_of(result) = <<>>) =>
        ret = join_lines(hist.last_body)

\* C16: a 429 response to a schema-retry GET is followed by a guest token
\* request.
C16_RetryRateLimitedRefreshes ==
    [][(rpc = "retry_sent" /\ hist'.last_status = 429) =>
        (rpc' = "token" /\ hist'.posts = hist.posts + 1)]_vars

\* C19: every GET of a call carries the caller's id as the value of the id
\* variable.
C19_IdCarried ==
    (rpc \in {"sent", "resent", "retry_sent"}) =>
        /\ id_name_of[query_name] \in DOMAIN status_params.variables
        /\ status_params.variables[id_name_of[query_name]] = str(req_id)

\* the names of a comma-separated list: its maximal runs of name characters
RECURSIVE ListNames(_, _)
ListNames(text, name) ==
    IF text = <<>> THEN (IF name = <<>> THEN {} ELSE {name})
    ELSE IF Head(text) \in NameChars THEN ListNames(Tail(text), Append(name, Head(text)))
    ELSE (IF name = <<>> THEN {} ELSE {name}) \cup ListNames(Tail(text), <<>>)

\* text is name ("," [" "] name)*
RECURSIVE IsNameList(_, _)
IsNameList(text, after_name) ==
    IF text = <<>> THEN after_name
    ELSE IF Head(text) \in NameChars THEN IsNameList(Tail(text), TRUE)
    ELSE IF Head(text) = "," /\ after_name
    THEN IF Len(text) >= 2 /\ text[2] = " "
         THEN Len(text) >= 3 /\ text[3] \in NameChars /\ IsNameList(Tail(Tail(text)), FALSE)
         ELSE Len(text) >= 2 /\ text[2] \in NameChars /\ IsNameList(Tail(text), FALSE)
    ELSE FALSE

\* C8: when the examined text has the missing-feature message followed by a
\* comma-separated list of names (with or without a space after a comma),
\* the features added are exactly the names of the list, each false.
C8_ExactlyListedFeatures ==
    (rpc = "retry_sent" /\ attempt = 0 /\ hist.patched
        /\ IsNameList(feature_group(result.feat), FALSE)) =>
        /\ DOMAIN json_features =
              DOMAIN store.features \cup ListNames(feature_group(result.feat), <<>>)
        /\ \A n \in ListNames(feature_group(result.feat), <<>>) : json_features[n] = False

\* =========================================================== get_tweet
\* get_tweet applied to one response.
TweetInit ==
    /\ status_resp \in StatusJson(SeqUpTo(Entries, MaxEntries))
    /\ focal_id \in Ids
    /\ tweet_out = [out |-> "none", value |-> "None", error |-> "none", parsed |-> 0]
    /\ tpc = "call"

TweetIdle ==
    /\ status_resp = [shape |-> "errors", entries |-> <<>>]
    /\ focal_id = 1
    /\ tweet_out = [out |-> "none", value |-> "None", error |-> "none", parsed |-> 0]
    /\ tpc = "idle"

\* lines 213-232
GetTweet ==
    /\ tpc = "call"
    /\ tweet_out' = get_tweet(status_resp, focal_id)
    /\ tpc' = "done"
    /\ UNCHANGED <<status_resp, focal_id>>
    /\ UNCHANGED not_tweet

TweetNext == GetTweet

\* ----------------------------------------------------- claims on get_tweet
IsTombstoneOf(e, id) == e.prefix = "tombstone" /\ e.id = id
IsTweetOf(e, id) == e.prefix = "tweet" /\ e.id = id

\* a tombstone-{id} entry is met before any tweet-{id} entry
TombstoneFirst(es, id) ==
    \E i \in 1..Len(es) :
        IsTombstoneOf(es[i], id) /\ \A j \in 1..(i - 1) : ~IsTweetOf(es[j], id)

\* C9: when tombstone-{id} comes before any tweet-{id}, get_tweet returns
\* None and parses no entry, whatever follows the tombstone.
C9_TombstonePrecedence ==
    (tpc = "done" /\ status_resp.shape = "conversation"
        /\ TombstoneFirst(status_resp.entries, focal_id)) =>
        /\ tweet_out.out = "return"
        /\ tweet_out.value = "None"
        /\ tweet_out.parsed = 0

\* a valid tweet-{id} entry follows the tombstone
C9_Witness ==
    /\ tpc = "done" /\ status_resp.shape = "conversation"
    /\ TombstoneFirst(status_resp.entries, focal_id)
    /\ \E i \in 1..Len(status_resp.entries) :
          /\ IsTweetOf(status_resp.entries[i], focal_id)
          /\ status_resp.entries[i].typename = "Tweet"
    /\ tweet_out.value = "None"

\* C17: when the tweet-{id} entry handed to parse_tweet has a result of a
\* type other than Tweet and TweetWithVisibilityResults, get_tweet raises
\* the exception that names the entry and the unknown type.
C17_UnknownTypeRaisesUnknownShape ==
    (tpc = "done" /\ tweet_out.parsed # 0
        /\ status_resp.entries[tweet_out.parsed].typename
              \notin {"Tweet", "TweetWithVisibilityResults"}) =>
        /\ tweet_out.out = "raise"
        /\ tweet_out.error = "unknown type"

\* ===================================================== download_videos
MaxTweets == 2
MaxMedia == 2
MaxVariants == 3
MaxBitrate == 2

\* A variant of video_info: its url (its position in the list) and, unless
\* b is -1, its bitrate b.
Variant(b, k) == IF b = -1 THEN [url |-> k] ELSE [url |-> k, bitrate |-> b]

VariantLists ==
    {[k \in 1..Len(bs) |-> Variant(bs[k], k)] : bs \in SeqUpTo(-1..MaxBitrate, MaxVariants)}

\* A media entry: a photo (no video_info), or a video with its variants.
MediaEntries ==
    {[video_info |-> FALSE, variants |-> <<>>]}
    \cup [video_info : {TRUE}, variants : VariantLists]

\* lines 92-98: the scan of the variants, best_variant = {} at the start
\* (here <<>> with found FALSE).
RECURSIVE best_of(_, _)
best_of(variants, best) ==
    IF variants = <<>> THEN best
    ELSE IF "bitrate" \notin DOMAIN Head(variants)
    THEN best_of(Tail(variants), best)
    ELSE IF ~best.found \/ best.variant.bitrate < Head(variants).bitrate
    THEN best_of(Tail(variants), [found |-> TRUE, variant |-> Head(variants)])
    ELSE best_of(Tail(variants), best)

NoBest == [found |-> FALSE, variant |-> [url |-> 0]]

\* lines 91-98
best_variant_lowest(video_info_variants) ==
    LET RECURSIVE low(_, _)
        low(variants, best) ==
            IF variants = <<>> THEN best
            ELSE IF "bitrate" \notin DOMAIN Head(variants)
            THEN low(Tail(variants), best)
            ELSE IF ~best.found \/ best.variant.bitrate > Head(variants).bitrate
            THEN low(Tail(variants), [found |-> TRUE, variant |-> Head(variants)])
            ELSE low(Tail(variants), best)
    IN low(video_info_variants, NoBest)

best_variant(video_info_variants) == best_of(video_info_variants, NoBest)

VideoInit ==
    /\ vpc = "tweets"
    /\ tweets_left \in 0..MaxTweets
    /\ media_left = 0
    /\ media_entry = [video_info |-> FALSE, variants |-> <<>>]
    /\ downloaded = <<>>
    /\ errors = 0

VideoIdle ==
    /\ vpc = "idle"
    /\ tweets_left = 0
    /\ media_left = 0
    /\ media_entry = [video_info |-> FALSE, variants |-> <<>>]
    /\ downloaded = <<>>
    /\ errors = 0

\* lines 80-88: the next value of like_dict is None (a deleted tweet) or has
\* no extended_entities: continue.
VideoSkipTweet ==
    /\ vpc = "tweets" /\ tweets_left > 0
    /\ tweets_left' = tweets_left - 1
    /\ UNCHANGED <<vpc, media_left, media_entry, downloaded, errors>>
    /\ UNCHANGED not_video

\* lines 85, 89: the next value of like_dict has a media list.
VideoTweetMedia ==
    /\ vpc = "tweets" /\ tweets_left > 0
    /\ tweets_left' = tweets_left - 1
    /\ \E n \in 0..MaxMedia : media_left' = n
    /\ vpc' = "media"
    /\ UNCHANGED <<media_entry, downloaded, errors>>
    /\ UNCHANGED not_video

\* lines 89-102: one media entry.
VideoEntry ==
    /\ vpc = "media" /\ media_left > 0
    /\ \E e \in MediaEntries :
        /\ media_entry' = e
        /\ IF ~e.video_info
           THEN downloaded' = <<>> /\ errors' = 0
           ELSE IF best_variant(e.variants).found
           THEN downloaded' = <<best_variant(e.variants).variant.url>> /\ errors' = 0
           ELSE downloaded' = <<>> /\ errors' = 1
    /\ media_left' = media_left - 1
    /\ UNCHANGED <<vpc, tweets_left>>
    /\ UNCHANGED not_video

\* line 89: the media list is exhausted.
VideoMediaEnd ==
    /\ vpc = "media" /\ media_left = 0
    /\ vpc' = "tweets"
    /\ UNCHANGED <<tweets_left, media_left, media_entry, downloaded, errors>>
    /\ UNCHANGED not_video

\* line 80: like_dict is exhausted; download_videos returns.
VideoReturn ==
    /\ vpc = "tweets" /\ tweets_left = 0
    /\ vpc' = "returned"
    /\ UNCHANGED <<tweets_left, media_left, media_entry, downloaded, errors>>
    /\ UNCHANGED not_video

VideoNext == VideoSkipTweet \/ VideoTweetMedia \/ VideoEntry \/ VideoMediaEnd \/ VideoReturn

\* ----------------------------------------------- claims on download_videos
Declared(variants) == {k \in 1..Len(variants) : "bitrate" \in DOMAIN variants[k]}

\* C10: for a media entry with video_info at most one variant is downloaded;
\* it declares a bitrate (0 included) and no declared bitrate is higher; with
\* no declared bitrate nothing is downloaded and one error is logged.
C10_BestVariant ==
    media_entry.video_info =>
        /\ Len(downloaded) <= 1
        /\ IF Declared(media_entry.variants) = {}
           THEN downloaded = <<>> /\ errors = 1
           ELSE /\ Len(downloaded) = 1
                /\ errors = 0
                /\ downloaded[1] \in Declared(media_entry.variants)
                /\ \A k \in Declared(media_entry.variants) :
                      media_entry.variants[k].bitrate
                          <= media_entry.variants[downloaded[1]].bitrate

\* variants with bitrates 1 and 2 and one without: the second is downloaded,
\* and there is a next entry
C10_Witness ==
    /\ media_entry.video_info
    /\ Len(media_entry.variants) = 3
    /\ Declared(media_entry.variants) = {1, 2}
    /\ media_entry.variants[1].bitrate = 1
    /\ media_entry.variants[2].bitrate = 2
    /\ downloaded = <<2>>
    /\ media_left > 0

\* =================================================== initialise_headers
MaxScripts == 3

\* What a script holds for the two patterns: whether BEARER_TOKEN_PATTERN
\* finds a token in it, and the query names of its QUERY_ID_PATTERN matches.
Scripts == [bearer : BOOLEAN, queries : SUBSET QueryNames]

HeadersIdle ==
    /\ hpc = "idle"
    /\ js_files = <<>>
    /\ js_idx = 0
    /\ bearer_token = 0
    /\ query_ids = EmptyDict
    /\ headers = EmptyDict
    /\ fetched = <<>>
    /\ token_requests = 0
    /\ herror = "none"

\* lines 124-125 and 131; the page of line 128 references any scripts.
HeadersInit ==
    /\ hpc = "start"
    /\ js_files \in SeqUpTo(Scripts, MaxScripts)
    /\ js_idx = 0
    /\ bearer_token = 0
    /\ query_ids = EmptyDict
    /\ headers = EmptyDict
    /\ fetched = <<>>
    /\ token_requests = 0
    /\ herror = "none"

\* lines 128-129: the page was fetched and its script references found.
HeadersContainer ==
    /\ hpc = "start"
    /\ js_idx' = 1
    /\ hpc' = "scan"
    /\ UNCHANGED <<js_files, bearer_token, query_ids, headers, fetched, token_requests, herror>>
    /\ UNCHANGED not_header

\* line 128: send_request raised for the page.
HeadersContainerRaise ==
    /\ hpc = "start"
    /\ hpc' = "raised"
    /\ herror' = "request"
    /\ UNCHANGED <<js_files, js_idx, bearer_token, query_ids, headers, fetched, token_requests>>
    /\ UNCHANGED not_header

\* lines 138-142: query_ids[query_name] = query_id for every match
scan_query_ids(d, script, k) ==
    [n \in DOMAIN d \cup script.queries |-> IF n \in script.queries THEN k ELSE d[n]]

\* lines 136, 144-145: the token of this script, if it has one
scan_bearer_token(token, script, k) == IF script.bearer THEN k ELSE token

\* line 148: if bearer_token and query_ids
found_both_never(token, d) == FALSE

found_both(token, d) == token # 0 /\ DOMAIN d # {}

\* lines 133-149: one pass of the loop whose script was fetched.
HeadersScript ==
    /\ hpc = "scan" /\ js_idx <= Len(js_files)
    /\ fetched' = Append(fetched, js_idx)
    /\ query_ids' = scan_query_ids(query_ids, js_files[js_idx], js_idx)
    /\ bearer_token' = scan_bearer_token(bearer_token, js_files[js_idx], js_idx)
    /\ IF found_both(bearer_token', query_ids')
       THEN hpc' = "check" /\ UNCHANGED js_idx
       ELSE js_idx' = js_idx + 1 /\ UNCHANGED hpc
    /\ UNCHANGED <<js_files, headers, token_requests, herror>>
    /\ UNCHANGED not_header

\* line 135: send_request raised for the script.
HeadersScriptRaise ==
    /\ hpc = "scan" /\ js_idx <= Len(js_files)
    /\ fetched' = Append(fetched, js_idx)
    /\ hpc' = "raised"
    /\ herror' = "request"
    /\ UNCHANGED <<js_files, js_idx, bearer_token, query_ids, headers, token_requests>>
    /\ UNCHANGED not_header

\* line 133: js_files is exhausted.
HeadersLoopEnd ==
    /\ hpc = "scan" /\ js_idx > Len(js_files)
    /\ hpc' = "check"
    /\ UNCHANGED <<js_files, js_idx, bearer_token, query_ids, headers, fetched,
                   token_requests, herror>>
    /\ UNCHANGED not_header

\* lines 151-156: raise without a bearer token or without query ids,
\* otherwise set the authorization header.
HeadersCheck ==
    /\ hpc = "check"
    /\ IF bearer_token = 0
       THEN hpc' = "raised" /\ herror' = "bearer token" /\ UNCHANGED headers
       ELSE IF DOMAIN query_ids = {}
       THEN hpc' = "raised" /\ herror' = "query ids" /\ UNCHANGED headers
       ELSE /\ headers' = setitem(headers, "authorization", bearer_token)
            /\ hpc' = "token"
            /\ UNCHANGED herror
    /\ UNCHANGED <<js_files, js_idx, bearer_token, query_ids, fetched, token_requests>>
    /\ UNCHANGED not_header

\* lines 158-159: get_guest_token put the token in the headers.
HeadersTokenOk ==
    /\ hpc = "token"
    /\ token_requests' = token_requests + 1
    /\ headers' = setitem(headers, "x-guest-token", 1)
    /\ hpc' = "returned"
    /\ UNCHANGED <<js_files, js_idx, bearer_token, query_ids, fetched, herror>>
    /\ UNCHANGED not_header

\* line 158: get_guest_token raised.
HeadersTokenRaise ==
    /\ hpc = "token"
    /\ token_requests' = token_requests + 1
    /\ hpc' = "raised"
    /\ herror' = "guest token"
    /\ UNCHANGED <<js_files, js_idx, bearer_token, query_ids, headers, fetched>>
    /\ UNCHANGED not_header

HeadersNext ==
    \/ HeadersContainer \/ HeadersContainerRaise \/ HeadersScript \/ HeadersScriptRaise
    \/ HeadersLoopEnd \/ HeadersCheck \/ HeadersTokenOk \/ HeadersTokenRaise

\* ------------------------------------------- claims on initialise_headers
\* among the first k scripts one holds a bearer token and one holds a query id
BothAmong(k) ==
    /\ \E j \in 1..k : js_files[j].bearer
    /\ \E j \in 1..k : js_files[j].queries # {}

\* C18: the scripts are requested one by one in page order, none after the
\* first script at which a bearer token and a query id were both found; the
\* function raises for a missing bearer token or missing query ids only when
\* every script was scanned, and then without a guest token request; a guest
\* token is requested only when both were found; the headers returned hold
\* the authorization of the bearer token found last and a guest token.
C18_ScanStopsWhenBothFound ==
    /\ \A i \in 1..Len(fetched) : fetched[i] = i
    /\ \A i \in 1..(Len(fetched) - 1) : ~BothAmong(i)
    /\ herror \in {"bearer token", "query ids"} =>
          /\ Len(fetched) = Len(js_files)
          /\ ~BothAmong(Len(js_files))
          /\ token_requests = 0
    /\ (hpc \in {"token", "returned", "raised"} /\ herror \notin {"request"}
            /\ Len(fetched) = Len(js_files) /\ ~BothAmong(Len(js_files))) =>
          /\ hpc = "raised"
          /\ herror = IF \E j \in 1..Len(js_files) : js_files[j].bearer
                      THEN "query ids" ELSE "bearer token"
          /\ token_requests = 0
    /\ token_requests > 0 => BothAmong(Len(fetched))
    /\ hpc = "returned" =>
          /\ DOMAIN headers = {"authorization", "x-guest-token"}
          /\ headers["authorization"] = bearer_token
          /\ bearer_token # 0 /\ js_files[bearer_token].bearer
          /\ DOMAIN query_ids # {}

\* the first script holds query ids, the second the bearer token: the third
\* is not requested and the headers are returned
C18_Witness ==
    /\ hpc = "returned"
    /\ Len(js_files) = 3
    /\ fetched = <<1, 2>>
    /\ ~js_files[1].bearer /\ js_files[1].queries # {}
    /\ js_files[2].bearer /\ js_files[2].queries = {}
    /\ js_files[3].bearer

\* ======================================================== download_file
MaxSize == 2

\* File contents: byte strings of at most MaxSize bytes.
Bytes == {"x", "y"}
Contents == SeqUpTo(Bytes, MaxSize)

NoFile == [exists |-> FALSE, content |-> <<>>]
\* no response yet
NoResponse == [status_code |-> 0, content_length |-> 0, content |-> <<>>]

HeadResponses == [status_code : {200, 404}, content_length : 0..MaxSize]
GetResponses == [status_code : {200, 404}, content : Contents]

DownloadIdle ==
    /\ dpc = "idle"
    /\ disk = NoFile
    /\ orig = NoFile
    /\ head_resp = NoResponse
    /\ get_resp = NoResponse

\* download_file is called; output_path names no file or a file of any content.
DownloadInit ==
    /\ dpc = "start"
    /\ disk \in {NoFile} \cup [exists : {TRUE}, content : Contents]
    /\ orig = disk
    /\ head_resp = NoResponse
    /\ get_resp = NoResponse

\* lines 31, 39-40: os.path.getsize raises OSError when there is no file.
DownloadGetsize ==
    /\ dpc = "start"
    /\ dpc' = IF disk.exists THEN "head" ELSE "open"
    /\ UNCHANGED <<disk, orig, head_resp, get_resp>>
    /\ UNCHANGED not_download

\* lines 34-35: the file is complete
same_size(response, size) ==
    response.status_code = 200 /\ response.content_length = size

\* lines 33-38: the HEAD response: return when the sizes agree.
DownloadHead ==
    /\ dpc = "head"
    /\ \E response \in HeadResponses :
        /\ head_resp' = response
        /\ dpc' = IF same_size(response, Len(disk.content)) THEN "returned" ELSE "open"
    /\ UNCHANGED <<disk, orig, get_resp>>
    /\ UNCHANGED not_download

\* lines 33, 39-40: requests.head raised a connection error, an OSError.
DownloadHeadRaise ==
    /\ dpc = "head"
    /\ dpc' = "open"
    /\ UNCHANGED <<disk, orig, head_resp, get_resp>>
    /\ UNCHANGED not_download

\* line 42: open(output_path, "wb") creates the file or empties it.
open_wb(f) == [exists |-> TRUE, content |-> <<>>]

DownloadOpen ==
    /\ dpc = "open"
    /\ disk' = open_wb(disk)
    /\ dpc' = "get"
    /\ UNCHANGED <<orig, head_resp, get_resp>>
    /\ UNCHANGED not_download

\* lines 43-49: the GET response: write its content on 200, log an error
\* otherwise; the file is closed.
DownloadGet ==
    /\ dpc = "get"
    /\ \E response \in GetResponses :
        /\ get_resp' = response
        /\ disk' = IF response.status_code = 200
                   THEN [disk EXCEPT !.content = response.content]
                   ELSE disk
    /\ dpc' = "returned"
    /\ UNCHANGED <<orig, head_resp>>
    /\ UNCHANGED not_download

\* line 43: requests.get raised; the file is closed and the exception leaves
\* download_file.
DownloadGetRaise ==
    /\ dpc = "get"
    /\ dpc' = "raised"
    /\ UNCHANGED <<disk, orig, head_resp, get_resp>>
    /\ UNCHANGED not_download

DownloadNext ==
    \/ DownloadGetsize \/ DownloadHead \/ DownloadHeadRaise \/ DownloadOpen
    \/ DownloadGet \/ DownloadGetRaise

\* ------------------------------------------------ claims on download_file
\* C20: when download_file has ended and a file existed at the target path,
\* the file has its old content unless a GET returned 200, and then it has
\* the content of that response.
C20_ExistingFileKept ==
    (dpc \in {"returned", "raised"} /\ orig.exists) =>
        /\ disk.exists
        /\ get_resp.status_code # 200 => disk = orig
        /\ disk # orig => disk.content = get_resp.content

\* ====================================================== specifications
BatchIdle ==
    /\ prog = "none"
    /\ args = [skip_metadata |-> FALSE]
    /\ input = <<>>
    /\ file = [exists |-> FALSE, data |-> EmptyDict]
    /\ run = 0
    /\ pc = "none"
    /\ cur = "none"
    /\ output_dict = EmptyDict
    /\ loaded = EmptyDict
    /\ idx = 0
    /\ cancelled = FALSE
    /\ account_ids = <<>>
    /\ new_accounts = EmptyDict
    /\ log = <<>>
    /\ prev = NoPrev

\* The batch runners of get_likes.py and get_follows.py.
Init == BatchInit /\ ReqIdle /\ TweetIdle /\ VideoIdle /\ HeadersIdle /\ DownloadIdle

Spec == Init /\ [][BatchNext]_vars

\* Calls of exploratory_request against a server that answers anything.
InitRequest == ReqInit /\ BatchIdle /\ TweetIdle /\ VideoIdle /\ HeadersIdle /\ DownloadIdle

SpecRequest == InitRequest /\ [][ReqNext]_vars

\* One call of exploratory_request, from each content of the request details
\* file, when every request is answered and the interpreter runs: each step
\* of the call that can be taken is taken.
ReqCallOnce == calls = 0 /\ ReqCall

ReqNextOnce ==
    \/ ReqCallOnce \/ ReqFirstResponse \/ ReqTokenOk \/ ReqTokenFail
    \/ ReqSecondResponse \/ ReqExamine \/ ReqRetryResponse

SpecRequestLive ==
    /\ InitRequest /\ [][ReqNextOnce]_vars
    /\ WF_vars(ReqFirstResponse)
    /\ WF_vars(ReqTokenOk \/ ReqTokenFail)
    /\ WF_vars(ReqSecondResponse)
    /\ WF_vars(ReqExamine)
    /\ WF_vars(ReqRetryResponse)

\* get_tweet on every response of bounded length.
InitTweet == TweetInit /\ BatchIdle /\ ReqIdle /\ VideoIdle /\ HeadersIdle /\ DownloadIdle

SpecTweet == InitTweet /\ [][TweetNext]_vars

\* download_videos over every like_dict of bounded size.
InitVideo == VideoInit /\ BatchIdle /\ ReqIdle /\ TweetIdle /\ HeadersIdle /\ DownloadIdle

SpecVideo == InitVideo /\ [][VideoNext]_vars


\* The schema-retry step on every text after the missing-feature message.
InitFeature == FeatureInit /\ BatchIdle /\ TweetIdle /\ VideoIdle /\ HeadersIdle /\ DownloadIdle

SpecFeature == InitFeature /\ [][FeatureNext]_vars

\* initialise_headers on every page of at most MaxScripts scripts.
InitHeaders ==
    HeadersInit /\ BatchIdle /\ ReqIdle /\ TweetIdle /\ VideoIdle /\ DownloadIdle

SpecHeaders == InitHeaders /\ [][HeadersNext]_vars

\* download_file with and without a file at the target path.
InitDownload ==
    DownloadInit /\ BatchIdle /\ ReqIdle /\ TweetIdle /\ VideoIdle /\ HeadersIdle

SpecDownload == InitDownload /\ [][DownloadNext]_vars

====
